---------------------------- MODULE Spec2Model ----------------------------
(***************************************************************************)
(* A model of the currency-option class of NadexBot (src/CurrencyOption.py) *)
(* and of the price feed that drives it (src/NadexScrape0.0.7.py).          *)
(*                                                                         *)
(* Numbers.  Python floats are modelled as decimal fixed-point numbers     *)
(* with four decimals: the integer n stands for n / Scale.  Every          *)
(* arithmetic operation rounds its exact result to the nearest             *)
(* representable number, as IEEE arithmetic does, only with a resolution   *)
(* of 1/Scale instead of 2^-53.  All the numbers the source and the spec   *)
(* write down (0.01, 300.0, 0.1, 299.9, 0.05, the rate table, strikes      *)
(* such as 1.1000, T = 0.0833) are exact at this resolution.               *)
(***************************************************************************)
EXTENDS Integers, Sequences, FiniteSets, TLC

Scale == 100 * 100

\* Python evaluates an argument once, before the call: Call1 and Call2 hand
\* the values of their arguments to F
Call1(x, F(_)) == CHOOSE r \in { F(v) : v \in {x} } : TRUE

Call2(x, y, F(_, _)) == CHOOSE r \in { F(v, w) : v \in {x}, w \in {y} } : TRUE

AbsValue(x) == IF x < 0 THEN -x ELSE x

\* abs(x)
Abs(x) == Call1(x, AbsValue)

\* round(a*b / Scale) for a, b >= 0, split so that no product leaves 32 bits
MulN(a, b) ==
    LET ah == a \div Scale
        al == a % Scale
        bh == b \div Scale
        bl == b % Scale
    IN  ah * bh * Scale + ah * bl + al * bh + (al * bl + Scale \div 2) \div Scale

MulValue(a, b) ==
    IF (a < 0) = (b < 0) THEN MulN(AbsValue(a), AbsValue(b))
    ELSE -MulN(AbsValue(a), AbsValue(b))

\* float multiplication
Mul(a, b) == Call2(a, b, MulValue)

\* x*x
Square(x) == Call1(x, LAMBDA v : MulValue(v, v))

\* round(a*Scale / b) for a >= 0, b > 0, by long division two digits at a time
DivN(a, b) ==
    LET q0 == a \div b
        r0 == a % b
        q1 == (r0 * 100) \div b
        r1 == (r0 * 100) % b
        q2 == (r1 * 100 + b \div 2) \div b
    IN  q0 * Scale + q1 * 100 + q2

DivValue(a, b) ==
    IF (a < 0) = (b < 0) THEN DivN(AbsValue(a), AbsValue(b))
    ELSE -DivN(AbsValue(a), AbsValue(b))

\* float division; the caller has excluded b = 0 (ZeroDivisionError)
Div(a, b) == Call2(a, b, DivValue)

RECURSIVE FloorSqrt(_, _, _)
\* the largest r in lo..hi-1 with r*r <= n, given lo*lo <= n < hi*hi
FloorSqrt(n, lo, hi) ==
    IF hi - lo <= 1 THEN lo
    ELSE LET mid == (lo + hi) \div 2
         IN  IF mid * mid <= n THEN FloorSqrt(n, mid, hi) ELSE FloorSqrt(n, lo, mid)

SqrtValue(x) ==
    Call1(FloorSqrt(x * Scale, 0, 46341),
          LAMBDA r : IF x * Scale - r * r > r THEN r + 1 ELSE r)

\* math.sqrt for x >= 0 (the caller has excluded x < 0, a ValueError)
Sqrt(x) == Call1(x, SqrtValue)

\* exp on [-1/4, 1/4]: the Taylor polynomial of degree 4
ExpTaylor(x) ==
    Call1(MulValue(x, x), LAMBDA x2 :
        Call1(MulValue(x2, x), LAMBDA x3 :
            Scale + x + x2 \div 2 + DivValue(x3, 6 * Scale)
                + DivValue(MulValue(x3, x), 24 * Scale)))

RECURSIVE ExpValue(_)
\* exp(x) = exp(x/2)^2, down to the Taylor range; exp(x) rounds to 0.0000
\* below -12
ExpValue(x) ==
    IF x < -12 * Scale THEN 0
    ELSE IF AbsValue(x) <= Scale \div 4 THEN ExpTaylor(x)
    ELSE LET half == IF x >= 0 THEN x \div 2 ELSE -((-x) \div 2)
         IN  Mul(Square(ExpValue(half)), ExpTaylor(x - 2 * half))

\* math.exp
Exp(x) == Call1(x, ExpValue)

\* log on [1/2, 2]: 2*atanh((x-1)/(x+1)), five terms
LnSeries(x) ==
    Call1(DivValue(x - Scale, x + Scale), LAMBDA z :
        Call1(MulValue(z, z), LAMBDA z2 :
            Call1(MulValue(z2, z), LAMBDA z3 :
                Call1(MulValue(z3, z2), LAMBDA z5 :
                    Call1(MulValue(z5, z2), LAMBDA z7 :
                        2 * (z + DivValue(z3, 3 * Scale)
                               + DivValue(z5, 5 * Scale)
                               + DivValue(z7, 7 * Scale)
                               + DivValue(MulValue(z7, z2), 9 * Scale)))))))

RECURSIVE LnValue(_)
\* log(2) = 0.6931 brings x into the range of the series
LnValue(x) ==
    IF x > 2 * Scale THEN LnValue((x + 1) \div 2) + 6931
    ELSE IF 2 * x < Scale THEN LnValue(2 * x) - 6931
    ELSE LnSeries(x)

\* math.log for x > 0 (the caller has excluded x <= 0, a ValueError)
Ln(x) == Call1(x, LnValue)

\* the standard normal distribution function at 0.0, 0.1, ..., 4.0
PhiTable ==
    << 5000, 5398, 5793, 6179, 6554, 6915, 7257, 7580, 7881, 8159,
       8413, 8643, 8849, 9032, 9192, 9332, 9452, 9554, 9641, 9713,
       9772, 9821, 9861, 9893, 9918, 9938, 9953, 9965, 9974, 9981,
       9987, 9990, 9993, 9995, 9997, 9998, 9998, 9999, 9999, 10000, 10000 >>

\* the table, interpolated linearly; from 4.0 on the result rounds to
\* 1.0000, as a float's does from about 8.3 on
NormCdfPos(x) ==
    LET i == x \div (Scale \div 10)
        f == x % (Scale \div 10)
    IN  IF i >= 40 THEN Scale
        ELSE PhiTable[i + 1]
               + ((PhiTable[i + 2] - PhiTable[i + 1]) * f + Scale \div 20)
                   \div (Scale \div 10)

NormCdfValue(x) == IF x >= 0 THEN NormCdfPos(x) ELSE Scale - NormCdfPos(-x)

\* scipy.stats.norm.cdf(x, 0, 1)
NormCdf(x) == Call1(x, NormCdfValue)

-----------------------------------------------------------------------------
(***************************************************************************)
(* Strings are sequences of one-character strings.                         *)
(***************************************************************************)
Digits == {"0", "1", "2", "3", "4", "5", "6", "7", "8", "9"}

DigitValue(c) ==
    CASE c = "0" -> 0 [] c = "1" -> 1 [] c = "2" -> 2 [] c = "3" -> 3
      [] c = "4" -> 4 [] c = "5" -> 5 [] c = "6" -> 6 [] c = "7" -> 7
      [] c = "8" -> 8 [] c = "9" -> 9

\* the least index of c in s, or 0
IndexOf(s, c) ==
    IF \E i \in 1..Len(s) : s[i] = c
    THEN CHOOSE i \in 1..Len(s) : s[i] = c /\ \A j \in 1..(i - 1) : s[j] # c
    ELSE 0

RECURSIVE Split(_, _)
\* str.split(c): the list of the pieces of s between the occurrences of c
Split(s, c) ==
    LET i == IndexOf(s, c)
    IN  IF i = 0 THEN << s >>
        ELSE << SubSeq(s, 1, i - 1) >> \o Split(SubSeq(s, i + 1, Len(s)), c)

\* str.replace(c, ""): s without any occurrence of c
Remove(s, c) == SelectSeq(s, LAMBDA x : x # c)

RECURSIVE DigitsValue(_)
\* the number a string of digits writes
DigitsValue(s) ==
    IF s = << >> THEN 0
    ELSE 10 * DigitsValue(SubSeq(s, 1, Len(s) - 1)) + DigitValue(s[Len(s)])

AllDigits(s) == \A i \in 1..Len(s) : s[i] \in Digits

\* whether s starts with a sign
Signed(s) == s # << >> /\ s[1] \in {"-", "+"}

\* s without its sign
Unsigned(s) == IF Signed(s) THEN Tail(s) ELSE s

\* whether float(s) succeeds: an optional sign, then digits with at most one
\* point and at least one digit (the decimal literals; float() raises
\* ValueError otherwise)
IsFloat(s) ==
    LET parts == Split(Unsigned(s), ".")
    IN  /\ Len(parts) \in {1, 2}
        /\ \A k \in 1..Len(parts) : AllDigits(parts[k])
        /\ \E k \in 1..Len(parts) : parts[k] # << >>

\* float(s) for IsFloat(s), rounded to four decimals
Float(s) ==
    LET parts == Split(Unsigned(s), ".")
        frac == IF Len(parts) = 2 THEN parts[2] ELSE << >>
        pad == frac \o << "0", "0", "0", "0", "0" >>
        f5 == DigitsValue(SubSeq(pad, 1, 5))
        magnitude == DigitsValue(parts[1]) * Scale + (f5 + 5) \div 10
    IN  IF Signed(s) /\ s[1] = "-" THEN -magnitude ELSE magnitude

-----------------------------------------------------------------------------
(***************************************************************************)
(* The numbers of CurrencyOption.calculateVolatility.                      *)
(***************************************************************************)
\* low = 0.01
InitialLow == Scale \div 100

\* high = 300.0
InitialHigh == 300 * Scale

\* the escape thresholds 0.1 and 299.9 of the loop's exit test
LowEscape == Scale \div 10

HighEscape == 300 * Scale - Scale \div 10

\* the precision __init__ calibrates with: calculateVolatility(0.05)
CtorPrecision == Scale \div 20

\* CurrencyOption.riskFreeRates
RateCodes ==
    { << "A", "U", "D" >>, << "C", "A", "D" >>, << "C", "H", "F" >>,
      << "E", "U", "R" >>, << "G", "B", "P" >>, << "J", "P", "Y" >>,
      << "U", "S", "D" >> }

riskFreeRates(code) ==
    CASE code = << "A", "U", "D" >> -> 371
      [] code = << "C", "A", "D" >> -> 225
      [] code = << "C", "H", "F" >> -> 75
      [] code = << "E", "U", "R" >> -> 256
      [] code = << "G", "B", "P" >> -> 256
      [] code = << "J", "P", "Y" >> -> 57
      [] code = << "U", "S", "D" >> -> 252

\* s without a '>' at its end
StripTrailing(s) ==
    IF s # << >> /\ s[Len(s)] = ">" THEN SubSeq(s, 1, Len(s) - 1) ELSE s

\* the strike text with only a trailing '>' removed
StrikeTextTrailing(nm) ==
    LET toks == Split(nm, " ") IN StripTrailing(toks[Len(toks) - 1])

\* name.split(" ")[-2].replace(">", ""), the text float() is applied to;
\* name.split(" ") has at least two entries (IndexError otherwise)
StrikeText(nm) ==
    LET toks == Split(nm, " ") IN Remove(toks[Len(toks) - 1], ">")

\* [c for c in name.split(" ")[0].split("/")]
Countries(nm) == Split(Split(nm, " ")[1], "/")

\* the exception lines 32-36 of __init__ raise, or "none"
ParseError(nm, und) ==
    IF Len(Split(nm, " ")) < 2 THEN "IndexError"
    ELSE IF ~IsFloat(StrikeText(nm)) THEN "ValueError"
    ELSE IF und = 0 THEN "ZeroDivisionError"
    ELSE IF Countries(nm)[1] \notin RateCodes THEN "KeyError"
    ELSE IF Len(Countries(nm)) < 2 THEN "IndexError"
    ELSE IF Countries(nm)[2] \notin RateCodes THEN "KeyError"
    ELSE "none"

\* the argument of a KeyError taken to be the last code of the identifier
ParseErrorArgLast(nm, und) ==
    IF ParseError(nm, und) # "KeyError" THEN << >>
    ELSE Countries(nm)[Len(Countries(nm))]

\* the argument of that exception: the key a KeyError names
ParseErrorArg(nm, und) ==
    IF ParseError(nm, und) # "KeyError" THEN << >>
    ELSE IF Countries(nm)[1] \notin RateCodes THEN Countries(nm)[1]
    ELSE Countries(nm)[2]

\* 1/self.underlying
ConversionFactor(und) == Div(Scale, und)

\* (high + low)/2.0
Midpoint(lo, hi) == (hi + lo + 1) \div 2

\* the exception the evaluation of d1 raises, in the order Python evaluates
\* line 75, or "none"
D1Error(und, strk, vol, T) ==
    IF strk = 0 THEN "ZeroDivisionError"
    ELSE IF Div(und, strk) <= 0 THEN "ValueError"
    ELSE IF T < 0 THEN "ValueError"
    ELSE IF Mul(vol, Sqrt(T)) = 0 THEN "ZeroDivisionError"
    ELSE "none"

\* d1 of line 75, for D1Error = "none"
D1(und, strk, rd, rf, vol, T) ==
    Div(Ln(Div(und, strk)) + Mul(rd - rf + Mul(Mul(Scale \div 2, vol), vol), T),
        Mul(vol, Sqrt(T)))

\* value of line 77
Value(d1v, rd, T, buy, conv) ==
    Mul(Mul(Mul(Exp(Mul(-rd, T)), NormCdf(d1v)), buy), conv)

\* the exit test with 1.0 written for the escape threshold 0.1
ExitTestWideEscape(val, buy, prec, lo, hi) ==
    \/ Abs(buy - val) <= prec
    \/ hi <= Scale
    \/ lo >= HighEscape

\* the exit test without abs(): a model price above the target always passes
ExitTestNoAbs(val, buy, prec, lo, hi) ==
    \/ buy - val <= prec
    \/ hi <= LowEscape
    \/ lo >= HighEscape

\* the exit test with the precision taken ten times too large
ExitTestLoose(val, buy, prec, lo, hi) ==
    \/ Abs(buy - val) <= 10 * prec
    \/ hi <= LowEscape
    \/ lo >= HighEscape

\* the exit test with the precision taken relative to the buy price
ExitTestRelative(val, buy, prec, lo, hi) ==
    \/ Abs(buy - val) <= Mul(prec, buy)
    \/ hi <= LowEscape
    \/ lo >= HighEscape

\* the exit test of line 79
ExitTest(val, buy, prec, lo, hi) ==
    \/ Abs(buy - val) <= prec
    \/ hi <= LowEscape
    \/ lo >= HighEscape

\* d2 with the square root forgotten
D2NoSqrt(d1v, vol, T) == d1v - Mul(vol, T)

\* d2 of line 86
D2(d1v, vol, T) == d1v - Mul(vol, Sqrt(T))

-----------------------------------------------------------------------------
(***************************************************************************)
(* The Greeks, lines 118-190.  Each reads the attributes of an option o    *)
(* and returns a number or raises.                                         *)
(***************************************************************************)
\* TWOPI = 2*pi
TWOPI == 62832

GreekNames ==
    { "delta", "leverage", "theta", "vega", "rho", "gamma", "vanna", "vomma",
      "speed", "zomma", "ultima" }

\* the Greeks with a parameter short
ShortGreeks == { "delta", "leverage", "theta", "rho" }

\* exp(-self.r_foreign * self.expiry)
ForeignDiscount(o) == Exp(Mul(-o.r_foreign, o.expiry))

\* exp(-self.r_foreign * self.expiry - (d1Squared)/2)
ExpTerm(o, d1sq) == Exp(Mul(-o.r_foreign, o.expiry) - Div(d1sq, 2 * Scale))

\* self.underlying * self.volatility * sqrt(self.TWOPI*self.expiry)
GammaDenominator(o) ==
    Mul(Mul(o.underlying, o.volatility), Sqrt(Mul(TWOPI, o.expiry)))

\* a product whose first factor is 0.0000 is 0.0000, whatever the second
\* factor, which may then be beyond the numbers of the model
Times(a, F(_)) == IF a = 0 THEN 0 ELSE Mul(a, F(a))

\* lines 121-124
delta(o, short) ==
    IF short THEN -Mul(ForeignDiscount(o), NormCdf(-o.d1))
    ELSE Mul(ForeignDiscount(o), NormCdf(o.d1))

\* lines 129-132
leverage(o, short) == Mul(delta(o, short), Div(o.underlying, o.strike))

\* the first term of lines 138 and 140
ThetaDecay(o, d1sq) ==
    Div(Mul(Mul(-ExpTerm(o, d1sq), o.underlying), o.volatility),
        2 * Sqrt(Mul(TWOPI, o.expiry)))

\* r_domestic*exp(r_domestic*expiry)*strike*norm.cdf(x)
ThetaCarry(o, x) ==
    Mul(Mul(Mul(o.r_domestic, Exp(Mul(o.r_domestic, o.expiry))), o.strike),
        NormCdf(x))

\* lines 137-140
Theta(o, short, d1sq) ==
    IF short
    THEN ThetaDecay(o, d1sq)
           - Mul(Mul(o.r_foreign, ForeignDiscount(o)), NormCdf(-o.d1))
           + ThetaCarry(o, -o.d2)
    ELSE ThetaDecay(o, d1sq)
           + Mul(Mul(o.r_foreign, ForeignDiscount(o)), NormCdf(o.d1))
           - ThetaCarry(o, o.d2)

\* line 145
Vega(o, d1sq) ==
    Mul(Mul(ExpTerm(o, d1sq), o.underlying), Sqrt(Div(o.expiry, TWOPI)))

\* lines 150-153
rho(o, short) ==
    IF short
    THEN Mul(Mul(Mul(-o.expiry, Exp(Mul(-o.r_domestic, o.expiry))), o.strike),
             NormCdf(-o.d2))
    ELSE Mul(Mul(Mul(o.expiry, Exp(Mul(-o.r_domestic, o.expiry))), o.strike),
             NormCdf(o.d2))

\* line 159
Gamma(o, d1sq) == Div(ExpTerm(o, d1sq), GammaDenominator(o))

\* line 166
Vanna(o, d1sq) ==
    Div(Mul(-ExpTerm(o, d1sq), o.d2), Mul(o.volatility, Sqrt(TWOPI)))

\* line 172
Vomma(o, d1sq, dd) ==
    Div(Mul(Mul(Mul(o.underlying, ExpTerm(o, d1sq)), Sqrt(o.expiry)), dd),
        o.volatility)

\* line 178
Speed(o, d1sq) ==
    Times(-Div(Gamma(o, d1sq), o.underlying),
          LAMBDA a : Scale + Div(o.d1, Mul(o.volatility, Sqrt(o.expiry))))

\* line 184
Zomma(o, d1sq, dd) ==
    Times(Gamma(o, d1sq), LAMBDA a : Div(dd - Scale, o.volatility))

\* line 190
Ultima(o, d1sq, dd, d2sq) ==
    Times(Div(-Vega(o, d1sq), Mul(o.volatility, o.volatility)),
          LAMBDA a : Mul(dd, Scale - dd) + d1sq + d2sq)

\* the exception a Greek of CurrencyOption.py raises, in the order Python
\* evaluates its line, or "none"
GreekError(o, g) ==
    CASE g \in {"delta", "rho"} -> "none"
      [] g = "leverage" ->
            IF o.strike = 0 THEN "ZeroDivisionError" ELSE "none"
      [] g = "vega" -> IF o.expiry < 0 THEN "ValueError" ELSE "none"
      [] g = "vanna" ->
            IF o.volatility = 0 THEN "ZeroDivisionError" ELSE "none"
      [] g = "vomma" ->
            IF o.expiry < 0 THEN "ValueError"
            ELSE IF o.volatility = 0 THEN "ZeroDivisionError" ELSE "none"
      [] g = "ultima" ->
            IF o.expiry < 0 THEN "ValueError"
            ELSE IF o.volatility = 0 THEN "ZeroDivisionError" ELSE "none"
      [] g = "theta" ->
            IF o.expiry < 0 THEN "ValueError"
            ELSE IF o.expiry = 0 THEN "ZeroDivisionError" ELSE "none"
      [] g \in {"gamma", "speed", "zomma"} ->
            IF o.expiry < 0 THEN "ValueError"
            ELSE IF o.underlying = 0 \/ o.volatility = 0 \/ o.expiry = 0
                 THEN "ZeroDivisionError"
            ELSE "none"

\* the number a Greek of CurrencyOption.py returns, for GreekError = "none":
\* the cached products are read from the object
GreekValue(o, g, short) ==
    CASE g = "delta" -> delta(o, short)
      [] g = "leverage" -> leverage(o, short)
      [] g = "theta" -> Theta(o, short, o.d1Squared)
      [] g = "vega" -> Vega(o, o.d1Squared)
      [] g = "rho" -> rho(o, short)
      [] g = "gamma" -> Gamma(o, o.d1Squared)
      [] g = "vanna" -> Vanna(o, o.d1Squared)
      [] g = "vomma" -> Vomma(o, o.d1Squared, o.d1d2)
      [] g = "speed" -> Speed(o, o.d1Squared)
      [] g = "zomma" -> Zomma(o, o.d1Squared, o.d1d2)
      [] g = "ultima" -> Ultima(o, o.d1Squared, o.d1d2, o.d2Squared)

\* what a call of a Greek gives
GreekCall(o, g, short) ==
    [call |-> g, short |-> short, raised |-> GreekError(o, g),
     value |-> IF GreekError(o, g) = "none" THEN GreekValue(o, g, short)
               ELSE 0]

-----------------------------------------------------------------------------
(***************************************************************************)
(* The inputs the model draws from.                                        *)
(***************************************************************************)
\* how many calls of calculateVolatility follow the constructor's
MaxCalls == 1

\* how many tuples priceHistory sends on the option's pipe
MaxSend == 4

\* how many times the caller appends to the option's history lists
MaxAppend == 1

EurUsd11000 ==
    << "E", "U", "R", "/", "U", "S", "D", " ", ">", "1", ".", "1", "0", "0",
       "0", " ", "(", "3", "P", "M", ")" >>

AudUsd7600 ==
    << "A", "U", "D", "/", "U", "S", "D", " ", ">", "0", ".", "7", "6", "0",
       "0", " ", "(", "3", "P", "M", ")" >>

AudUsd5000 ==
    << "A", "U", "D", "/", "U", "S", "D", " ", ">", "0", ".", "5", "0", "0",
       "0", " ", "(", "3", "P", "M", ")" >>

XauUsd11000 ==
    << "X", "A", "U", "/", "U", "S", "D", " ", ">", "1", ".", "1", "0", "0",
       "0", " ", "(", "3", "P", "M", ")" >>

Names == { EurUsd11000, AudUsd7600, AudUsd5000, XauUsd11000 }

\* identifiers off the convention: three codes, one code, a strike that is
\* no number, a strike with its '>' behind it, a negative and a zero strike,
\* an unknown second code, and a single token
EurUsdJpy11000 ==
    << "E", "U", "R", "/", "U", "S", "D", "/", "J", "P", "Y", " ", ">", "1",
       ".", "1", "0", "0", "0", " ", "(", "3", "P", "M", ")" >>

EurUsdOneCode ==
    << "E", "U", "R", "U", "S", "D", " ", ">", "1", ".", "1", "0", "0", "0",
       " ", "(", "3", "P", "M", ")" >>

EurUsdNoNumber ==
    << "E", "U", "R", "/", "U", "S", "D", " ", ">", "1", ".", "1", "x", "0",
       "0", " ", "(", "3", "P", "M", ")" >>

EurUsdTrailing ==
    << "E", "U", "R", "/", "U", "S", "D", " ", "1", ".", "1", "0", "0", "0",
       ">", " ", "(", "3", "P", "M", ")" >>

AudUsdNegative ==
    << "A", "U", "D", "/", "U", "S", "D", " ", ">", "-", "0", ".", "7", "6",
       "0", "0", " ", "(", "3", "P", "M", ")" >>

AudUsdZero ==
    << "A", "U", "D", "/", "U", "S", "D", " ", ">", "0", ".", "0", "0", "0",
       "0", " ", "(", "3", "P", "M", ")" >>

UsdXau11000 ==
    << "U", "S", "D", "/", "X", "A", "U", " ", ">", "1", ".", "1", "0", "0",
       "0", " ", "(", "3", "P", "M", ")" >>

EurUsdAlone == << "E", "U", "R", "/", "U", "S", "D" >>

IdentifierNames ==
    Names \cup { EurUsdJpy11000, EurUsdOneCode, EurUsdNoNumber, EurUsdTrailing,
                 AudUsdNegative, AudUsdZero, UsdXau11000, EurUsdAlone }

\* the quotes an option is constructed with: 0.0120/0.0100 and 40.0/39.0
Quotes == { [buy |-> 120, sell |-> 100], [buy |-> 400000, sell |-> 390000] }

\* underlying rates: 1.1050 and 0.7200
Underlyings == { 11050, 7200 }

\* and rates no market quotes: 0 and -0.7200
IdentifierUnderlyings == Underlyings \cup { 0, -7200 }

\* times to expiry: 0.0833 (a month) and 0 (expired)
Expiries == { 833, 0 }

\* what one round of the feed scrapes: sell, buy, time to expiry, underlying
Ticks ==
    { [sell |-> 390000, buy |-> 400000, time |-> 833, und |-> 7200],
      [sell |-> 300, buy |-> 400, time |-> 0, und |-> 11050] }

\* the precisions calculateVolatility is called with after construction:
\* 0.05, and a precision at the resolution of the arithmetic (for a float,
\* one near 1e-15 times the price)
Precisions == { Scale \div 20, 1 }

-----------------------------------------------------------------------------
(***************************************************************************)
(* The state.  One option object: the attributes updateFields assigns are  *)
(* the attributes calculateVolatility and the Greeks read.  updateFields   *)
(* runs in a process of its own (line 29), so it takes its steps between   *)
(* the calls made on the object, never inside one: a call of               *)
(* calculateVolatility sees one snapshot from its first line to its last.  *)
(*                                                                         *)
(* Two abstractions.  The pipe argument is taken to be a one-element       *)
(* sequence holding the connection, the only kind of value for which       *)
(* Process(..., args=(pipe)) of line 29 hands updateFields a connection.   *)
(* And the object is modelled once: multiprocessing gives the update       *)
(* process a copy of the object as it is at line 30, and the model lets    *)
(* the assignments of updateFields and the calls of calculateVolatility    *)
(* act on the same attributes, as the methods are written.                 *)
(***************************************************************************)
VARIABLES
    name, buyPrice, sellPrice, expiry, underlying, doExpiry,
    buyHistory, sellHistory, underlyingHistory,
    strike, countries, conversionFactor, r_domestic, r_foreign,
    volatility, d1, d2, d1Squared, d1d2, d2Squared,
    pc,         \* where the caller of the object is: "start" (line 29),
                \* "parse" (line 32),
                \* "mid" (line 73), "test" (line 79), "idle" (no call in
                \* progress), "failed" (__init__ raised)
    inCtor,     \* whether the call in progress is the one of line 43
    precision, low, high, value,    \* calculateVolatility's argument and locals
    outcome,    \* how the last call of calculateVolatility ended: "none",
                \* "returned", or the exception it raised
    calls,      \* the calls of calculateVolatility made after construction
    pcU,        \* where updateFields is: "sell", "buy", "expiry",
                \* "underlying" (lines 49-52), "pullBuy", "pullSell",
                \* "pullUnderlying" (lines 55-57)
    pipe,       \* the tuples sent to the option and not yet received
    sellList, buyList,  \* priceHistory's lists for this option
    sent,       \* the tuples priceHistory has sent
    appended,   \* the appends the caller has made to the history lists
    origin,     \* for each snapshot field, the number of the tuple it was
                \* taken from (0: the constructor's argument)
    last,       \* the step taken last
    updateProcess,  \* "none", or "started" once line 30 has run
    ctorError,  \* the exception lines 32-36 raised and its argument
    rateTable,  \* the class attribute riskFreeRates
    greek,      \* the Greek called in the last step, and what the call gave
    other,      \* a second option object, or NoOption
    watchlist,  \* the rows of the watchlist page: for each open contract
                \* its name and the text of its sell and buy price cells
    searchCall, \* the method of NadexSearch called in the last step, and
                \* what the call gave
    gathering,  \* the statuses sent on priceGatheringChild and not yet
                \* received on priceGatheringParent
    pcMenu,     \* where mainMenu is: "prompt", or "recv" (line 487, in
                \* priceGatheringParent.recv())
    printed,    \* what the last selection of the menu printed
    pcHistory,  \* where the priceHistory process started last is: "none",
                \* "init" (line 245), "loop" (line 263), "exited"
                \* (line 270), "raised"
    running,    \* how many priceHistory processes are alive
    length,     \* priceHistory's argument
    currentPrices,  \* priceHistory's list of the prices it scraped last
    listCount,  \* the number of lists in priceHistory's buyList and sellList
    status,     \* the status priceHistory sent last: "none", "True" or
                \* "False"
    purchaseInProgress, \* the global buy() reads and assigns: "undefined",
                \* "True" or "False"
    driver,     \* the global buy() reads: "undefined" or "defined"
    ticketsOpen,    \* the global counter of open betslips
    pcBuy,      \* for each caller of buy(), where its call is: "idle" (no
                \* call), "wait" (line 587), "claim" (589), "click" (591),
                \* "load" (599), "fill" (610), "close" (622), "release"
                \* (630), "unflag" (631)
    myTicket,   \* for each caller, the local myTicket: << >> when unbound
    buyResult,  \* for each caller, how its last call ended: "none",
                \* "NameError" (raised), "Link_text not found." or "None"
                \* (returned)
    buys        \* for each caller, the calls of buy() it has made

terms == << name, strike, countries, r_domestic, r_foreign >>
snapshot == << buyPrice, sellPrice, expiry, underlying, conversionFactor >>
histories == << buyHistory, sellHistory, underlyingHistory >>
modelState == << volatility, d1, d2 >>
products == << d1Squared, d1d2, d2Squared >>
call == << pc, inCtor, precision, low, high, value, outcome, calls >>
feed == << pipe, sellList, buyList, sent, appended >>
rest == << updateProcess, ctorError, rateTable, other >>
\* the variables of one option object, and the variables of the session
\* the NadexSearch object runs
option == << terms, snapshot, histories, modelState, products, call, feed,
             doExpiry, pcU, origin, greek, rest >>
search == << watchlist, searchCall >>
gatherer == << pcHistory, running, length, currentPrices, listCount, status >>
menu == << gathering, pcMenu, printed >>
buyer == << purchaseInProgress, driver, ticketsOpen, pcBuy, myTicket,
           buyResult, buys >>
session == << search, gatherer, menu, buyer >>
vars == << option, last, session >>

\* no exception
NoError == [type |-> "none", arg |-> << >>]

\* no Greek has been called in the last step
NoGreek == [call |-> "none", short |-> FALSE, raised |-> "none", value |-> 0]

\* no second object
NoOption == [pc |-> "absent"]

\* no method of NadexSearch has been called in the last step
NoCall == [op |-> "none"]

\* the menu is not running and no priceHistory process has been started
NoGatherer ==
    /\ gathering = << >>
    /\ pcMenu = "prompt"
    /\ printed = "none"
    /\ pcHistory = "none"
    /\ running = 0
    /\ length = 0
    /\ currentPrices = << >>
    /\ listCount = 0
    /\ status = "none"

\* the callers of buy()
Callers == { 1, 2 }

\* the module's global of line 774
InitialTickets == -1

\* no call of buy() has been made: ticketsOpen is as line 774 leaves it,
\* and the module assigns neither purchaseInProgress nor driver
NoBuyer ==
    /\ purchaseInProgress = "undefined"
    /\ driver = "undefined"
    /\ ticketsOpen = InitialTickets
    /\ pcBuy = [c \in Callers |-> "idle"]
    /\ myTicket = [c \in Callers |-> << >>]
    /\ buyResult = [c \in Callers |-> "none"]
    /\ buys = [c \in Callers |-> 0]

\* the session when only an option object is looked at: an empty watchlist,
\* and no method of NadexSearch called
NoSession ==
    /\ watchlist = << >>
    /\ searchCall = NoCall
    /\ NoGatherer
    /\ NoBuyer

\* __init__, lines 13-28: the arguments are stored;
\* isinstance(indicative, float) decides between the indicative and the
\* exchange rate as the underlying, and the mode of updateFields
\* (underlyingHistory is read in the mode without pipe only, line 57)
Start(names, unds, others) ==
    /\ name \in names
    /\ \E q \in Quotes :
          /\ buyPrice = q.buy
          /\ sellPrice = q.sell
          /\ buyHistory = << q.buy >>
          /\ sellHistory = << q.sell >>
          /\ buyList = << q.buy >>
          /\ sellList = << q.sell >>
    /\ expiry \in Expiries
    /\ underlying \in unds
    /\ doExpiry \in BOOLEAN
    /\ underlyingHistory \in (IF doExpiry THEN { underlying } ELSE Underlyings)
    /\ pcU = IF doExpiry THEN "sell" ELSE "pullBuy"
    /\ strike = 0 /\ countries = << >> /\ conversionFactor = 0
    /\ r_domestic = 0 /\ r_foreign = 0
    /\ volatility = 0 /\ d1 = 0 /\ d2 = 0
    /\ d1Squared = 0 /\ d1d2 = 0 /\ d2Squared = 0
    /\ pc = "start" /\ inCtor = TRUE
    /\ precision = 0 /\ low = 0 /\ high = 0 /\ value = 0
    /\ outcome = "none" /\ calls = 0
    /\ pipe = << >> /\ sent = 0 /\ appended = 0
    /\ origin = [sell |-> 0, buy |-> 0, expiry |-> 0, underlying |-> 0]
    /\ last = "init"
    /\ updateProcess = "none"
    /\ ctorError = NoError
    /\ rateTable = [c \in RateCodes |-> riskFreeRates(c)]
    /\ greek = NoGreek
    /\ other \in others

Init == Start(Names, Underlyings, { NoOption }) /\ NoSession

\* __init__, lines 29-30: the update process is created and started
StartUpdate ==
    /\ pc = "start"
    /\ updateProcess' = "started"
    /\ pc' = "parse"
    /\ last' = "startUpdate"
    /\ UNCHANGED session
    /\ greek' = NoGreek
    /\ UNCHANGED << terms, snapshot, histories, modelState, products, inCtor,
                    precision, low, high, value, outcome, calls, feed,
                    doExpiry, pcU, origin, ctorError, rateTable, other >>

\* __init__, lines 32-43: the terms are parsed from the name, and
\* calculateVolatility(0.05) is entered (lines 69-70)
Parse ==
    /\ pc = "parse"
    /\ ParseError(name, underlying) = "none"
    /\ strike' = Float(StrikeText(name))
    /\ countries' = Countries(name)
    /\ conversionFactor' = ConversionFactor(underlying)
    /\ r_domestic' = rateTable[Countries(name)[1]]
    /\ r_foreign' = rateTable[Countries(name)[2]]
    /\ pc' = "mid"
    /\ precision' = CtorPrecision
    /\ low' = InitialLow
    /\ high' = InitialHigh
    /\ last' = "parse"
    /\ UNCHANGED session
    /\ greek' = NoGreek
    /\ UNCHANGED rest
    /\ UNCHANGED << name, buyPrice, sellPrice, expiry, underlying, histories,
                    modelState, products, inCtor, value, outcome, calls, feed,
                    doExpiry, pcU, origin >>

\* __init__, lines 32-36, raising: no object is constructed
ParseRaise ==
    /\ pc = "parse"
    /\ ParseError(name, underlying) # "none"
    /\ pc' = "failed"
    /\ last' = "parseRaise"
    /\ UNCHANGED session
    /\ ctorError' = [type |-> ParseError(name, underlying),
                     arg |-> ParseErrorArg(name, underlying)]
    /\ greek' = NoGreek
    /\ UNCHANGED << updateProcess, rateTable, other >>
    /\ UNCHANGED << terms, snapshot, histories, modelState, products, inCtor,
                    precision, low, high, value, outcome, calls, feed,
                    doExpiry, pcU, origin >>

\* a call calculateVolatility(p) on the constructed object, lines 69-70
CalcStart ==
    /\ pc = "idle"
    /\ calls < MaxCalls
    /\ \E p \in Precisions : precision' = p
    /\ calls' = calls + 1
    /\ low' = InitialLow
    /\ high' = InitialHigh
    /\ pc' = "mid"
    /\ last' = "calcStart"
    /\ UNCHANGED session
    /\ greek' = NoGreek
    /\ UNCHANGED rest
    /\ UNCHANGED << terms, snapshot, histories, modelState, products, inCtor,
                    value, outcome, feed, doExpiry, pcU, origin >>

\* lines 73-77: volatility, d1 and value of this iteration
CalcMid ==
    /\ pc = "mid"
    /\ D1Error(underlying, strike, Midpoint(low, high), expiry) = "none"
    /\ volatility' = Midpoint(low, high)
    /\ d1' = D1(underlying, strike, r_domestic, r_foreign, volatility', expiry)
    /\ value' = Value(d1', r_domestic, expiry, buyPrice, conversionFactor)
    /\ pc' = "test"
    /\ last' = "calcMid"
    /\ UNCHANGED session
    /\ greek' = NoGreek
    /\ UNCHANGED rest
    /\ UNCHANGED << terms, snapshot, histories, d2, products, inCtor,
                    precision, low, high, outcome, calls, feed, doExpiry, pcU,
                    origin >>

\* lines 73-75, raising: line 73 has assigned the volatility, the exception
\* of line 75 ends the call and, in __init__, the construction
CalcRaise ==
    /\ pc = "mid"
    /\ D1Error(underlying, strike, Midpoint(low, high), expiry) # "none"
    /\ volatility' = Midpoint(low, high)
    /\ outcome' = D1Error(underlying, strike, volatility', expiry)
    /\ pc' = IF inCtor THEN "failed" ELSE "idle"
    /\ last' = "calcRaise"
    /\ UNCHANGED session
    /\ greek' = NoGreek
    /\ UNCHANGED rest
    /\ UNCHANGED << terms, snapshot, histories, d1, d2, products, inCtor,
                    precision, low, high, value, calls, feed, doExpiry, pcU,
                    origin >>

\* the bounds after lines 81-84
NewLow(val, buy, vol, lo) == IF val < buy THEN vol ELSE lo

NewHigh(val, buy, vol, hi) == IF val > buy THEN vol ELSE hi

\* lines 79-84 when the exit test fails: one bound moves to the volatility
CalcTest ==
    /\ pc = "test"
    /\ ~ExitTest(value, buyPrice, precision, low, high)
    /\ low' = NewLow(value, buyPrice, volatility, low)
    /\ high' = NewHigh(value, buyPrice, volatility, high)
    /\ pc' = "mid"
    /\ last' = "calcTest"
    /\ UNCHANGED session
    /\ greek' = NoGreek
    /\ UNCHANGED rest
    /\ UNCHANGED << terms, snapshot, histories, modelState, products, inCtor,
                    precision, value, outcome, calls, feed, doExpiry, pcU,
                    origin >>

\* lines 79-80 and 86, with lines 87-89 left out: the cached products are
\* not refreshed
CalcReturnStale ==
    /\ pc = "test"
    /\ ExitTest(value, buyPrice, precision, low, high)
    /\ d2' = D2(d1, volatility, expiry)
    /\ outcome' = "returned"
    /\ inCtor' = FALSE
    /\ pc' = "idle"
    /\ last' = "calcReturn"
    /\ UNCHANGED session
    /\ greek' = NoGreek
    /\ UNCHANGED rest
    /\ UNCHANGED << terms, snapshot, histories, volatility, d1, products,
                    precision, low, high, value, calls, feed, doExpiry, pcU,
                    origin >>

\* lines 79-80 when the exit test holds, and lines 86-91 (in __init__,
\* line 43 stores the returned volatility and the object is constructed)
CalcReturn ==
    /\ pc = "test"
    /\ ExitTest(value, buyPrice, precision, low, high)
    /\ d2' = D2(d1, volatility, expiry)
    /\ d1Squared' = Mul(d1, d1)
    /\ d1d2' = Mul(d1, d2')
    /\ d2Squared' = Mul(d2', d2')
    /\ outcome' = "returned"
    /\ inCtor' = FALSE
    /\ pc' = "idle"
    /\ last' = "calcReturn"
    /\ UNCHANGED session
    /\ greek' = NoGreek
    /\ UNCHANGED rest
    /\ UNCHANGED << terms, snapshot, histories, volatility, d1, precision,
                    low, high, value, calls, feed, doExpiry, pcU, origin >>

\* the number of a tuple the feed sent: its lists have grown by one entry
\* with every round of priceHistory
TupleNumber(m) == Len(m[1]) - 1

\* the last entry of a list: l[-1]
LastOf(l) == l[Len(l)]

\* line 49: self.sellPrice = pipe.recv()[0][-1]
UpdateSell ==
    /\ pcU = "sell" /\ pc = "idle" /\ pipe # << >>
    /\ sellPrice' = LastOf(Head(pipe)[1])
    /\ origin' = [origin EXCEPT !.sell = TupleNumber(Head(pipe))]
    /\ pipe' = Tail(pipe)
    /\ pcU' = "buy"
    /\ last' = "update"
    /\ UNCHANGED session
    /\ greek' = NoGreek
    /\ UNCHANGED rest
    /\ UNCHANGED << terms, buyPrice, expiry, underlying, conversionFactor,
                    histories, modelState, products, call, sellList, buyList,
                    sent, appended, doExpiry >>

\* line 50: self.buyPrice = pipe.recv()[1][-1]
UpdateBuy ==
    /\ pcU = "buy" /\ pc = "idle" /\ pipe # << >>
    /\ buyPrice' = LastOf(Head(pipe)[2])
    /\ origin' = [origin EXCEPT !.buy = TupleNumber(Head(pipe))]
    /\ pipe' = Tail(pipe)
    /\ pcU' = "expiry"
    /\ last' = "update"
    /\ UNCHANGED session
    /\ greek' = NoGreek
    /\ UNCHANGED rest
    /\ UNCHANGED << terms, sellPrice, expiry, underlying, conversionFactor,
                    histories, modelState, products, call, sellList, buyList,
                    sent, appended, doExpiry >>

\* line 51 with the received time stored as the strike as well
UpdateExpiryRestriking ==
    /\ pcU = "expiry" /\ pc = "idle" /\ pipe # << >>
    /\ expiry' = Head(pipe)[3]
    /\ strike' = Head(pipe)[3]
    /\ origin' = [origin EXCEPT !.expiry = TupleNumber(Head(pipe))]
    /\ pipe' = Tail(pipe)
    /\ pcU' = "underlying"
    /\ last' = "update"
    /\ UNCHANGED session
    /\ greek' = NoGreek
    /\ UNCHANGED rest
    /\ UNCHANGED << name, countries, r_domestic, r_foreign, buyPrice,
                    sellPrice, underlying, conversionFactor, histories,
                    modelState, products, call, sellList, buyList, sent,
                    appended, doExpiry >>

\* line 51: self.expiry = pipe.recv()[2]
UpdateExpiry ==
    /\ pcU = "expiry" /\ pc = "idle" /\ pipe # << >>
    /\ expiry' = Head(pipe)[3]
    /\ origin' = [origin EXCEPT !.expiry = TupleNumber(Head(pipe))]
    /\ pipe' = Tail(pipe)
    /\ pcU' = "underlying"
    /\ last' = "update"
    /\ UNCHANGED session
    /\ greek' = NoGreek
    /\ UNCHANGED rest
    /\ UNCHANGED << terms, buyPrice, sellPrice, underlying, conversionFactor,
                    histories, modelState, products, call, sellList, buyList,
                    sent, appended, doExpiry >>

\* line 52 with an invalidation of the model state added
UpdateUnderlyingInvalidating ==
    /\ pcU = "underlying" /\ pc = "idle" /\ pipe # << >>
    /\ underlying' = Head(pipe)[4]
    /\ origin' = [origin EXCEPT !.underlying = TupleNumber(Head(pipe))]
    /\ pipe' = Tail(pipe)
    /\ pcU' = "sell"
    /\ last' = "update"
    /\ UNCHANGED session
    /\ greek' = NoGreek
    /\ UNCHANGED rest
    /\ volatility' = 0 /\ d1' = 0 /\ d2' = 0
    /\ UNCHANGED << terms, buyPrice, sellPrice, expiry, conversionFactor,
                    histories, products, call, sellList, buyList, sent,
                    appended, doExpiry >>

\* line 52: self.underlying = pipe.recv()[3], and back to line 48
UpdateUnderlying ==
    /\ pcU = "underlying" /\ pc = "idle" /\ pipe # << >>
    /\ underlying' = Head(pipe)[4]
    /\ origin' = [origin EXCEPT !.underlying = TupleNumber(Head(pipe))]
    /\ pipe' = Tail(pipe)
    /\ pcU' = "sell"
    /\ last' = "update"
    /\ UNCHANGED session
    /\ greek' = NoGreek
    /\ UNCHANGED rest
    /\ UNCHANGED << terms, buyPrice, sellPrice, expiry, conversionFactor,
                    histories, modelState, products, call, sellList, buyList,
                    sent, appended, doExpiry >>

\* line 55: self.buyPrice = self.buyHistory[-1]
PullBuy ==
    /\ pcU = "pullBuy" /\ pc = "idle"
    /\ buyPrice' = LastOf(buyHistory)
    /\ pcU' = "pullSell"
    /\ last' = "update"
    /\ UNCHANGED session
    /\ greek' = NoGreek
    /\ UNCHANGED rest
    /\ UNCHANGED << terms, sellPrice, expiry, underlying, conversionFactor,
                    histories, modelState, products, call, feed, doExpiry,
                    origin >>

\* line 56: self.sellPrice = self.sellHistory[-1]
PullSell ==
    /\ pcU = "pullSell" /\ pc = "idle"
    /\ sellPrice' = LastOf(sellHistory)
    /\ pcU' = "pullUnderlying"
    /\ last' = "update"
    /\ UNCHANGED session
    /\ greek' = NoGreek
    /\ UNCHANGED rest
    /\ UNCHANGED << terms, buyPrice, expiry, underlying, conversionFactor,
                    histories, modelState, products, call, feed, doExpiry,
                    origin >>

\* line 57: self.underlying = self.underlyingHistory, and back to line 54
PullUnderlying ==
    /\ pcU = "pullUnderlying" /\ pc = "idle"
    /\ underlying' = underlyingHistory
    /\ pcU' = "pullBuy"
    /\ last' = "update"
    /\ UNCHANGED session
    /\ greek' = NoGreek
    /\ UNCHANGED rest
    /\ UNCHANGED << terms, buyPrice, sellPrice, expiry, conversionFactor,
                    histories, modelState, products, call, feed, doExpiry,
                    origin >>

\* the steps of updateFields
UpdateFields ==
    \/ UpdateSell \/ UpdateBuy \/ UpdateExpiry \/ UpdateUnderlying
    \/ PullBuy \/ PullSell \/ PullUnderlying

\* one round of priceHistory for this option: the scraped prices are
\* appended to its lists, and the lists, the time to expiry and the
\* indicative are sent as one tuple.  The option sees a tuple only when
\* updateFields receives it, so the model lets the feed send between the
\* calls on the object.
FeedSend ==
    /\ doExpiry /\ pc = "idle" /\ sent < MaxSend
    /\ \E t \in Ticks :
          /\ sellList' = Append(sellList, t.sell)
          /\ buyList' = Append(buyList, t.buy)
          /\ pipe' = Append(pipe, << sellList', buyList', t.time, t.und >>)
    /\ sent' = sent + 1
    /\ last' = "send"
    /\ UNCHANGED session
    /\ greek' = NoGreek
    /\ UNCHANGED rest
    /\ UNCHANGED << terms, snapshot, histories, modelState, products, call,
                    appended, doExpiry, pcU, origin >>

\* the owner of the history lists appends the latest prices; the object
\* holds the lists by reference and reads them in the mode without pipe
HistoryAppend ==
    /\ ~doExpiry /\ pc = "idle" /\ appended < MaxAppend
    /\ \E t \in Ticks :
          /\ buyHistory' = Append(buyHistory, t.buy)
          /\ sellHistory' = Append(sellHistory, t.sell)
    /\ appended' = appended + 1
    /\ last' = "append"
    /\ UNCHANGED session
    /\ greek' = NoGreek
    /\ UNCHANGED rest
    /\ UNCHANGED << terms, snapshot, underlyingHistory, modelState, products,
                    call, pipe, sellList, buyList, sent, doExpiry, pcU, origin >>

\* the attributes of the object, as the Greeks read them
Self ==
    [buyPrice |-> buyPrice, sellPrice |-> sellPrice, expiry |-> expiry,
     underlying |-> underlying, conversionFactor |-> conversionFactor,
     strike |-> strike, r_domestic |-> r_domestic, r_foreign |-> r_foreign,
     volatility |-> volatility, d1 |-> d1, d2 |-> d2,
     d1Squared |-> d1Squared, d1d2 |-> d1d2, d2Squared |-> d2Squared]

\* a Greek that keeps what it computed in the attribute d1Squared
GreekStoring ==
    /\ pc = "idle"
    /\ \E g \in GreekNames, short \in BOOLEAN :
          /\ short => g \in ShortGreeks
          /\ greek' = GreekCall(Self, g, short)
    /\ d1Squared' = greek'.value
    /\ last' = "greek"
    /\ UNCHANGED session
    /\ UNCHANGED << terms, snapshot, histories, modelState, d1d2, d2Squared,
                    call, feed, doExpiry, pcU, origin, rest >>

\* a call of one of the Greeks on the constructed object, lines 118-190
Greek ==
    /\ pc = "idle"
    /\ \E g \in GreekNames, short \in BOOLEAN :
          /\ short => g \in ShortGreeks
          /\ greek' = GreekCall(Self, g, short)
    /\ last' = "greek"
    /\ UNCHANGED session
    /\ UNCHANGED << terms, snapshot, histories, modelState, products, call,
                    feed, doExpiry, pcU, origin, rest >>

Next ==
    \/ StartUpdate
    \/ Parse
    \/ ParseRaise
    \/ CalcStart
    \/ CalcMid
    \/ CalcRaise
    \/ CalcTest
    \/ CalcReturn
    \/ UpdateSell
    \/ UpdateBuy
    \/ UpdateExpiry
    \/ UpdateUnderlying
    \/ PullBuy
    \/ PullSell
    \/ PullUnderlying
    \/ FeedSend
    \/ HistoryAppend

Spec == Init /\ [][Next]_vars

\* the calls on the object alone, with the snapshot of the constructor
CalcNext ==
    \/ StartUpdate
    \/ Parse
    \/ ParseRaise
    \/ CalcStart
    \/ CalcMid
    \/ CalcRaise
    \/ CalcTest
    \/ CalcReturn

\* the calls and the Greeks
GreekNext == CalcNext \/ Greek

GreekSpec == Init /\ [][GreekNext]_vars

\* the attributes an object has when lines 13-42 have run, and the locals of
\* the call of line 43 when lines 69-70 have run
Constructing(nm, buy, sell, T, und) ==
    [buyPrice |-> buy, sellPrice |-> sell, expiry |-> T, underlying |-> und,
     conversionFactor |-> ConversionFactor(und),
     strike |-> Float(StrikeText(nm)),
     r_domestic |-> riskFreeRates(Countries(nm)[1]),
     r_foreign |-> riskFreeRates(Countries(nm)[2]),
     volatility |-> 0, d1 |-> 0, d2 |-> 0,
     d1Squared |-> 0, d1d2 |-> 0, d2Squared |-> 0,
     precision |-> CtorPrecision, low |-> InitialLow, high |-> InitialHigh,
     value |-> 0, pc |-> "mid", greek |-> NoGreek]

\* an object o with a call calculateVolatility(prec) entered
Entering(o, prec) ==
    [buyPrice |-> o.buyPrice, sellPrice |-> o.sellPrice, expiry |-> o.expiry,
     underlying |-> o.underlying, conversionFactor |-> o.conversionFactor,
     strike |-> o.strike, r_domestic |-> o.r_domestic,
     r_foreign |-> o.r_foreign,
     volatility |-> o.volatility, d1 |-> o.d1, d2 |-> o.d2,
     d1Squared |-> o.d1Squared, d1d2 |-> o.d1d2, d2Squared |-> o.d2Squared,
     precision |-> prec, low |-> InitialLow, high |-> InitialHigh,
     value |-> 0, pc |-> "mid", greek |-> NoGreek]

\* lines 73-77 on the object o
MidStep(o) ==
    LET vol == Midpoint(o.low, o.high)
    IN  IF D1Error(o.underlying, o.strike, vol, o.expiry) # "none"
        THEN [o EXCEPT !.volatility = vol, !.pc = "raised"]
        ELSE LET d1v == D1(o.underlying, o.strike, o.r_domestic, o.r_foreign,
                           vol, o.expiry)
             IN  [o EXCEPT !.volatility = vol,
                           !.d1 = d1v,
                           !.value = Value(d1v, o.r_domestic, o.expiry,
                                           o.buyPrice, o.conversionFactor),
                           !.pc = "test"]

\* lines 79-91 on the object o
TestStep(o) ==
    IF ExitTest(o.value, o.buyPrice, o.precision, o.low, o.high)
    THEN LET d2v == D2(o.d1, o.volatility, o.expiry)
         IN  [o EXCEPT !.d2 = d2v,
                       !.d1Squared = Mul(o.d1, o.d1),
                       !.d1d2 = Mul(o.d1, d2v),
                       !.d2Squared = Mul(d2v, d2v),
                       !.pc = "idle"]
    ELSE [o EXCEPT !.low = NewLow(o.value, o.buyPrice, o.volatility, o.low),
                   !.high = NewHigh(o.value, o.buyPrice, o.volatility, o.high),
                   !.pc = "mid"]

RECURSIVE Run(_)
\* the call of calculateVolatility on o run to its end with nothing
\* else running
Run(o) ==
    IF o.pc = "mid" THEN Call1(MidStep(o), Run)
    ELSE IF o.pc = "test" THEN Call1(TestStep(o), Run)
    ELSE o

\* the second object is a EUR/USD option quoted at 40.0, or an expired
\* AUD/USD option
Others ==
    { Constructing(EurUsd11000, 400000, 390000, 833, 11050),
      Constructing(AudUsd5000, 400000, 390000, 0, 7200) }

\* lines 73-77 on the second object, with the first object's volatility
\* assigned as well, as a class attribute would be
OtherCalcMidShared ==
    /\ other.pc = "mid"
    /\ MidStep(other).pc = "test"
    /\ other' = MidStep(other)
    /\ volatility' = other'.volatility
    /\ last' = "other"
    /\ UNCHANGED session
    /\ greek' = NoGreek
    /\ UNCHANGED << terms, snapshot, histories, d1, d2, products, call, feed,
                    doExpiry, pcU, origin, updateProcess, ctorError,
                    rateTable >>

\* lines 73-77 on the second object
OtherCalcMid ==
    /\ other.pc = "mid"
    /\ MidStep(other).pc = "test"
    /\ other' = MidStep(other)
    /\ last' = "other"
    /\ UNCHANGED session
    /\ greek' = NoGreek
    /\ UNCHANGED << terms, snapshot, histories, modelState, products, call,
                    feed, doExpiry, pcU, origin, updateProcess, ctorError,
                    rateTable >>

\* lines 73-75 on the second object, raising
OtherCalcRaise ==
    /\ other.pc = "mid"
    /\ MidStep(other).pc = "raised"
    /\ other' = MidStep(other)
    /\ last' = "other"
    /\ UNCHANGED session
    /\ greek' = NoGreek
    /\ UNCHANGED << terms, snapshot, histories, modelState, products, call,
                    feed, doExpiry, pcU, origin, updateProcess, ctorError,
                    rateTable >>

\* lines 79-84 on the second object when the exit test fails
OtherCalcTest ==
    /\ other.pc = "test"
    /\ TestStep(other).pc = "mid"
    /\ other' = TestStep(other)
    /\ last' = "other"
    /\ UNCHANGED session
    /\ greek' = NoGreek
    /\ UNCHANGED << terms, snapshot, histories, modelState, products, call,
                    feed, doExpiry, pcU, origin, updateProcess, ctorError,
                    rateTable >>

\* lines 79-80 and 86-91 on the second object
OtherCalcReturn ==
    /\ other.pc = "test"
    /\ TestStep(other).pc = "idle"
    /\ other' = TestStep(other)
    /\ last' = "other"
    /\ UNCHANGED session
    /\ greek' = NoGreek
    /\ UNCHANGED << terms, snapshot, histories, modelState, products, call,
                    feed, doExpiry, pcU, origin, updateProcess, ctorError,
                    rateTable >>

\* a call of a Greek on the second object
OtherGreek ==
    /\ other.pc = "idle"
    /\ \E g \in GreekNames, short \in BOOLEAN :
          /\ short => g \in ShortGreeks
          /\ other' = [other EXCEPT !.greek = GreekCall(other, g, short)]
    /\ last' = "other"
    /\ UNCHANGED session
    /\ greek' = NoGreek
    /\ UNCHANGED << terms, snapshot, histories, modelState, products, call,
                    feed, doExpiry, pcU, origin, updateProcess, ctorError,
                    rateTable >>

\* the calls and the Greeks on two objects, interleaved
PairNext ==
    \/ GreekNext
    \/ OtherCalcMid
    \/ OtherCalcRaise
    \/ OtherCalcTest
    \/ OtherCalcReturn
    \/ OtherGreek

\* the first object is an AUD/USD option quoted at 40.0 with the underlying
\* at 0.7200, or one with an unknown currency, fed by the expiry loop
PairInit ==
    /\ Start({ AudUsd7600, XauUsd11000 }, { 7200 }, Others)
    /\ NoSession
    /\ buyPrice = 400000
    /\ doExpiry

PairSpec == PairInit /\ [][PairNext]_vars

-----------------------------------------------------------------------------
(***************************************************************************)
(* NadexSearch: the methods that read the watchlist page.  The page is a   *)
(* list of rows, one for each open contract, and the scripts of lines 74   *)
(* and 103 return the names and the price cells of the rows in their       *)
(* order, the sell cell of a row before its buy cell.  An element of a     *)
(* Python list is a float or a string: [float |-> TRUE, v |-> number] or   *)
(* [float |-> FALSE, v |-> text].  The methods are the same in             *)
(* NadexSearch.py and in NadexScrape0.0.7.py.                              *)
(***************************************************************************)
\* how many rows the watchlist has at most
MaxContracts == 3

\* the text of a price cell: '-' for no price, or a price
Dash == << "-" >>

Cell3900 == << "3", "9", ".", "0", "0" >>

Cell4000 == << "4", "0", ".", "0", "0" >>

PriceCells == { Dash, Cell3900, Cell4000 }

\* the names of the rows, by their place on the page
ContractNames == << EurUsd11000, AudUsd7600, AudUsd5000 >>

\* the name of row k
ContractName(k) == ContractNames[((k - 1) % Len(ContractNames)) + 1]

\* the pages with n rows
Watchlists(n) ==
    { w \in [1..n -> [name : { EurUsd11000, AudUsd7600, AudUsd5000 },
                      sell : PriceCells, buy : PriceCells]] :
         \A k \in 1..n : w[k].name = ContractName(k) }

\* the spreads scanner is called with: 0.5 and 2.0
Spreads == { 5000, 20000 }

\* lines 103-112: the price cells of the page, as strings
PriceTexts(w) ==
    [i \in 1..(2 * Len(w)) |->
        IF i % 2 = 1 THEN w[(i + 1) \div 2].sell ELSE w[i \div 2].buy]

\* lines 74-83: the names of the page
NameTexts(w) == [k \in 1..Len(w) |-> w[k].name]

\* lines 118-122: float(text) where it succeeds, the text where it raises
\* ValueError
ToFloat(text) ==
    IF IsFloat(text) THEN [float |-> TRUE, v |-> << Float(text) >>]
    ELSE [float |-> FALSE, v |-> text]

\* del l[i:j], with i and j counted from 0
DelSlice(l, i, j) ==
    SubSeq(l, 1, i) \o SubSeq(l, (IF j < Len(l) THEN j ELSE Len(l)) + 1, Len(l))

RECURSIVE CleanPrices(_, _)
\* lines 126-130: the loop that deletes the pairs whose first cell is no
\* float
CleanPrices(priceList, counter) ==
    IF counter >= Len(priceList) THEN priceList
    ELSE IF ~priceList[counter + 1].float
         THEN CleanPrices(DelSlice(priceList, counter, counter + 2), counter)
         ELSE CleanPrices(priceList, counter + 2)

\* getPrices(clean), lines 98-132
getPrices(w, clean) ==
    LET priceList == [i \in 1..(2 * Len(w)) |-> ToFloat(PriceTexts(w)[i])]
    IN  IF priceList = << >> THEN << >>
        ELSE IF clean THEN CleanPrices(priceList, 0)
        ELSE priceList

\* a call of getPrices
CallGetPrices ==
    /\ \E clean \in BOOLEAN :
          searchCall' = [op |-> "getPrices", clean |-> clean,
                         raised |-> "none",
                         value |-> getPrices(watchlist, clean)]
    /\ last' = "getPrices"
    /\ UNCHANGED << option, buyer, watchlist, gatherer, menu >>

RECURSIVE CleanNames(_, _, _)
\* lines 90-94: the loop that deletes names; len() of a float raises
\* TypeError, and the index counter//2 is the place the name had before
\* any deletion
CleanNames(nameList, priceList, counter) ==
    LET first == priceList[counter + 1]
        second == priceList[counter + 2]
        index == counter \div 2
        deleted ==
            IF index >= Len(nameList)
            THEN [raised |-> "IndexError", value |-> << >>]
            ELSE CleanNames(DelSlice(nameList, index, index + 1), priceList,
                            counter + 2)
    IN  IF counter >= Len(priceList)
        THEN [raised |-> "none", value |-> nameList]
        ELSE IF first.float THEN [raised |-> "TypeError", value |-> << >>]
        ELSE IF Len(first.v) < 4 THEN deleted
        ELSE IF second.float THEN [raised |-> "TypeError", value |-> << >>]
        ELSE IF Len(second.v) < 4 THEN deleted
        ELSE CleanNames(nameList, priceList, counter + 2)

\* getOptionNames(clean), lines 69-96: the exception raised, or the list
\* returned
getOptionNames(w, clean) ==
    IF NameTexts(w) = << >> THEN [raised |-> "none", value |-> << >>]
    ELSE IF clean THEN CleanNames(NameTexts(w), getPrices(w, FALSE), 0)
    ELSE [raised |-> "none", value |-> NameTexts(w)]

\* a call of getOptionNames
CallGetOptionNames ==
    /\ \E clean \in BOOLEAN :
          searchCall' = [op |-> "getOptionNames", clean |-> clean,
                         raised |-> getOptionNames(watchlist, clean).raised,
                         value |-> getOptionNames(watchlist, clean).value]
    /\ last' = "getOptionNames"
    /\ UNCHANGED << option, buyer, watchlist, gatherer, menu >>

RECURSIVE ScanLoop(_, _, _, _, _)
\* lines 226-236: iteration n reads prices[2n] and prices[2n + 1] for
\* names[n].  An index past the end raises IndexError and float() of a
\* string that is no number raises ValueError; only TypeError is caught.
\* rows are the iterations made: the name, the two prices read, and
\* whether the row was printed
ScanLoop(names, prices, spread, n, rows) ==
    LET p == 2 * n
        sell == prices[p + 1]
        buy == prices[p + 2]
        differential == Abs(sell.v[1] - buy.v[1])
    IN  IF n >= Len(names) THEN [raised |-> "none", rows |-> rows]
        ELSE IF p + 1 > Len(prices)
             THEN [raised |-> "IndexError", rows |-> rows]
        ELSE IF ~sell.float THEN [raised |-> "ValueError", rows |-> rows]
        ELSE IF p + 2 > Len(prices)
             THEN [raised |-> "IndexError", rows |-> rows]
        ELSE IF ~buy.float THEN [raised |-> "ValueError", rows |-> rows]
        ELSE ScanLoop(names, prices, spread, n + 1,
                      Append(rows, [name |-> names[n + 1],
                                    sell |-> sell, buy |-> buy,
                                    printed |-> differential <= spread]))

\* scanner(spread), lines 211-237
scanner(w, spread) ==
    LET names == getOptionNames(w, FALSE).value
        prices == getPrices(w, TRUE)
    IN  IF names = << >> THEN [raised |-> "none", rows |-> << >>]
        ELSE IF prices = << >> THEN [raised |-> "none", rows |-> << >>]
        ELSE ScanLoop(names, prices, spread, 0, << >>)

\* a call of scanner
CallScanner ==
    /\ \E spread \in Spreads :
          searchCall' = [op |-> "scanner", spread |-> spread,
                         raised |-> scanner(watchlist, spread).raised,
                         rows |-> scanner(watchlist, spread).rows]
    /\ last' = "scanner"
    /\ UNCHANGED << option, buyer, watchlist, gatherer, menu >>

\* the calls of the methods that read the page
SearchNext ==
    \/ CallGetPrices
    \/ CallGetOptionNames
    \/ CallScanner

\* the option object constructed and left alone
OptionIdle ==
    /\ Start({ AudUsd7600 }, { 7200 }, { NoOption })
    /\ buyPrice = 400000
    /\ expiry = 833
    /\ doExpiry

\* any page of at most MaxContracts rows
SearchInit ==
    /\ OptionIdle
    /\ \E n \in 0..MaxContracts : watchlist \in Watchlists(n)
    /\ searchCall = NoCall
    /\ NoGatherer
    /\ NoBuyer

SearchSpec == SearchInit /\ [][SearchNext]_vars

-----------------------------------------------------------------------------
(***************************************************************************)
(* NadexScrape0.0.7.py: option 6 of mainMenu and the priceHistory process  *)
(* it starts.  The two talk through the pipe priceGatheringChild ->        *)
(* priceGatheringParent; mainMenu sends False on it before its first       *)
(* prompt (line 412).  The connection lists that option 6 extends (lines   *)
(* 491-494) only grow, and priceHistory indexes them below the length it   *)
(* was started with: they are left out.                                    *)
(***************************************************************************)
\* the page with n rows, all of them priced
PricedPage(n) ==
    [k \in 1..n |-> [name |-> ContractName(k), sell |-> Cell3900,
                     buy |-> Cell4000]]

\* contracts open or close: the page gets another number of rows
PageChange ==
    /\ \E n \in 0..MaxContracts :
          /\ n # Len(watchlist)
          /\ watchlist' = PricedPage(n)
    /\ last' = "pageChange"
    /\ UNCHANGED << option, buyer, searchCall, gatherer, menu >>

\* the user enters 6 at the prompt: line 487 calls recv()
MenuSix ==
    /\ pcMenu = "prompt"
    /\ pcMenu' = "recv"
    /\ printed' = "none"
    /\ last' = "menuSix"
    /\ UNCHANGED << option, buyer, search, gatherer, gathering >>

\* lines 487-497: the status received is False and there are prices; a
\* priceHistory process is started with their number
MenuStart ==
    /\ pcMenu = "recv"
    /\ gathering # << >>
    /\ ~Head(gathering)
    /\ getPrices(watchlist, FALSE) # << >>
    /\ gathering' = Tail(gathering)
    /\ length' = Len(getPrices(watchlist, FALSE))
    /\ pcHistory' = "init"
    /\ running' = running + 1
    /\ pcMenu' = "prompt"
    /\ last' = "menuStart"
    /\ UNCHANGED << option, buyer, search, currentPrices, listCount, status,
                    printed >>

\* lines 487-489: the status received is False and there are no prices
MenuNoPrices ==
    /\ pcMenu = "recv"
    /\ gathering # << >>
    /\ ~Head(gathering)
    /\ getPrices(watchlist, FALSE) = << >>
    /\ gathering' = Tail(gathering)
    /\ printed' = "There are no open contracts."
    /\ pcMenu' = "prompt"
    /\ last' = "menuNoPrices"
    /\ UNCHANGED << option, buyer, search, gatherer >>

\* lines 487 and 498-499: the status received is True
MenuRunning ==
    /\ pcMenu = "recv"
    /\ gathering # << >>
    /\ Head(gathering)
    /\ gathering' = Tail(gathering)
    /\ printed' = "This process is already running."
    /\ pcMenu' = "prompt"
    /\ last' = "menuRunning"
    /\ UNCHANGED << option, buyer, search, gatherer >>

\* priceHistory, lines 245-261: the lists are made from the prices of the
\* page, and True is sent
HistoryInit ==
    /\ pcHistory = "init"
    /\ currentPrices' = getPrices(watchlist, FALSE)
    /\ listCount' = Len(currentPrices') \div 2
    /\ gathering' = Append(gathering, TRUE)
    /\ status' = "True"
    /\ pcHistory' = "loop"
    /\ last' = "historyInit"
    /\ UNCHANGED << option, buyer, search, running, length, pcMenu, printed >>

\* lines 267-270: the number of prices is not the length; False is sent and
\* the process exits
HistoryExit ==
    /\ pcHistory = "loop"
    /\ Len(currentPrices) # length
    /\ gathering' = Append(gathering, FALSE)
    /\ status' = "False"
    /\ pcHistory' = "exited"
    /\ running' = running - 1
    /\ last' = "historyExit"
    /\ UNCHANGED << option, buyer, search, length, currentPrices, listCount, pcMenu,
                    printed >>

\* lines 272-288: the page is scraped and its prices are appended to the
\* lists
HistoryRound ==
    /\ pcHistory = "loop"
    /\ Len(currentPrices) = length
    /\ Len(getPrices(watchlist, FALSE)) \div 2 <= listCount
    /\ currentPrices' = getPrices(watchlist, FALSE)
    /\ last' = "historyRound"
    /\ UNCHANGED << option, buyer, search, pcHistory, running, length, listCount,
                    status, menu >>

\* lines 272-278 with more prices than lists: buyList[p] of line 278 raises
\* IndexError and the process ends
HistoryRaise ==
    /\ pcHistory = "loop"
    /\ Len(currentPrices) = length
    /\ Len(getPrices(watchlist, FALSE)) \div 2 > listCount
    /\ currentPrices' = getPrices(watchlist, FALSE)
    /\ pcHistory' = "raised"
    /\ running' = running - 1
    /\ last' = "historyRaise"
    /\ UNCHANGED << option, buyer, search, length, listCount, status, menu >>

GatherNext ==
    \/ PageChange
    \/ MenuSix
    \/ MenuStart
    \/ MenuNoPrices
    \/ MenuRunning
    \/ HistoryInit
    \/ HistoryExit
    \/ HistoryRound
    \/ HistoryRaise

\* mainMenu at its first prompt, line 414: False has been sent (line 412)
GatherInit ==
    /\ OptionIdle
    /\ \E n \in 0..MaxContracts : watchlist = PricedPage(n)
    /\ searchCall = NoCall
    /\ gathering = << FALSE >>
    /\ pcMenu = "prompt"
    /\ printed = "none"
    /\ pcHistory = "none"
    /\ running = 0
    /\ length = 0
    /\ currentPrices = << >>
    /\ listCount = 0
    /\ status = "none"
    /\ NoBuyer

GatherSpec == GatherInit /\ [][GatherNext]_vars

-----------------------------------------------------------------------------
(***************************************************************************)
(* NadexScrape0.0.7.py: CurrencyOption.buy, lines 582-631, called by       *)
(* callers that share the module's globals.  The method reads the globals  *)
(* purchaseInProgress and driver, which no line of the module assigns      *)
(* before the first call: they are taken from the environment of the       *)
(* call, undefined as the module leaves them or defined by it.  A caller   *)
(* that finds purchaseInProgress True stays at line 587, and a loop that   *)
(* waits for the page (lines 599-604, 622-627) is left when the page       *)
(* answers.                                                                *)
(***************************************************************************)
\* how many calls of buy() a caller makes
MaxBuys == 2

\* a caller calls buy(): line 587 is reached
BuyCall(c) ==
    /\ pcBuy[c] = "idle"
    /\ buys[c] < MaxBuys
    /\ buys' = [buys EXCEPT ![c] = @ + 1]
    /\ pcBuy' = [pcBuy EXCEPT ![c] = "wait"]
    /\ myTicket' = [myTicket EXCEPT ![c] = << >>]
    /\ buyResult' = [buyResult EXCEPT ![c] = "none"]
    /\ last' = "buyCall"
    /\ UNCHANGED << option, search, gatherer, menu, driver, purchaseInProgress,
                    ticketsOpen >>

\* line 587 with purchaseInProgress undefined: NameError ends the call
BuyNameError(c) ==
    /\ pcBuy[c] = "wait"
    /\ purchaseInProgress = "undefined"
    /\ pcBuy' = [pcBuy EXCEPT ![c] = "idle"]
    /\ buyResult' = [buyResult EXCEPT ![c] = "NameError"]
    /\ last' = "buyNameError"
    /\ UNCHANGED << option, search, gatherer, menu, driver, purchaseInProgress,
                    ticketsOpen, myTicket, buys >>

\* line 587: purchaseInProgress is read False and the loop is left
BuyPass(c) ==
    /\ pcBuy[c] = "wait"
    /\ purchaseInProgress = "False"
    /\ pcBuy' = [pcBuy EXCEPT ![c] = "claim"]
    /\ last' = "buyPass"
    /\ UNCHANGED << option, search, gatherer, menu, driver, purchaseInProgress,
                    ticketsOpen, myTicket, buyResult, buys >>

\* line 589: purchaseInProgress = True
BuyClaim(c) ==
    /\ pcBuy[c] = "claim"
    /\ purchaseInProgress' = "True"
    /\ pcBuy' = [pcBuy EXCEPT ![c] = "click"]
    /\ last' = "buyClaim"
    /\ UNCHANGED << option, search, gatherer, menu, driver, ticketsOpen, myTicket,
                    buyResult, buys >>

\* lines 590-593: the link is clicked, ticketsOpen is incremented and
\* copied to myTicket
BuyClick(c) ==
    /\ pcBuy[c] = "click"
    /\ driver = "defined"
    /\ ticketsOpen' = ticketsOpen + 1
    /\ myTicket' = [myTicket EXCEPT ![c] = << ticketsOpen' >>]
    /\ pcBuy' = [pcBuy EXCEPT ![c] = "load"]
    /\ last' = "buyClick"
    /\ UNCHANGED << option, search, gatherer, menu, driver, purchaseInProgress,
                    buyResult, buys >>

\* lines 590-595: line 591 raises (the link is not on the page, or driver
\* is undefined) and the call returns "Link_text not found."
BuyNotFound(c) ==
    /\ pcBuy[c] = "click"
    /\ pcBuy' = [pcBuy EXCEPT ![c] = "idle"]
    /\ buyResult' = [buyResult EXCEPT ![c] = "Link_text not found."]
    /\ last' = "buyNotFound"
    /\ UNCHANGED << option, search, gatherer, menu, driver, purchaseInProgress,
                    ticketsOpen, myTicket, buys >>

\* lines 598-608: the order form has loaded
BuyLoaded(c) ==
    /\ pcBuy[c] = "load"
    /\ pcBuy' = [pcBuy EXCEPT ![c] = "fill"]
    /\ last' = "buyLoaded"
    /\ UNCHANGED << option, search, gatherer, menu, driver, purchaseInProgress,
                    ticketsOpen, myTicket, buyResult, buys >>

\* lines 609-618: the form is filled and submitted, loaded = False
BuyFill(c) ==
    /\ pcBuy[c] = "fill"
    /\ pcBuy' = [pcBuy EXCEPT ![c] = "close"]
    /\ last' = "buyFill"
    /\ UNCHANGED << option, search, gatherer, menu, driver, purchaseInProgress,
                    ticketsOpen, myTicket, buyResult, buys >>

\* lines 609-620: a script raises, "Error filling buyslip." is printed and
\* loaded stays True: the loop of line 622 is skipped
BuyFillError(c) ==
    /\ pcBuy[c] = "fill"
    /\ pcBuy' = [pcBuy EXCEPT ![c] = "release"]
    /\ last' = "buyFillError"
    /\ UNCHANGED << option, search, gatherer, menu, driver, purchaseInProgress,
                    ticketsOpen, myTicket, buyResult, buys >>

\* lines 622-627: the betslip has been closed
BuyClose(c) ==
    /\ pcBuy[c] = "close"
    /\ pcBuy' = [pcBuy EXCEPT ![c] = "release"]
    /\ last' = "buyClose"
    /\ UNCHANGED << option, search, gatherer, menu, driver, purchaseInProgress,
                    ticketsOpen, myTicket, buyResult, buys >>

\* line 630: ticketsOpen -= 1
BuyRelease(c) ==
    /\ pcBuy[c] = "release"
    /\ ticketsOpen' = ticketsOpen - 1
    /\ pcBuy' = [pcBuy EXCEPT ![c] = "unflag"]
    /\ last' = "buyRelease"
    /\ UNCHANGED << option, search, gatherer, menu, driver, purchaseInProgress,
                    myTicket, buyResult, buys >>

\* line 631: purchaseInProgress = False, and the call returns None
BuyUnflag(c) ==
    /\ pcBuy[c] = "unflag"
    /\ purchaseInProgress' = "False"
    /\ pcBuy' = [pcBuy EXCEPT ![c] = "idle"]
    /\ buyResult' = [buyResult EXCEPT ![c] = "None"]
    /\ last' = "buyUnflag"
    /\ UNCHANGED << option, search, gatherer, menu, driver, ticketsOpen, myTicket,
                    buys >>

BuyNext ==
    \/ \E c \in Callers : BuyCall(c)
    \/ \E c \in Callers : BuyNameError(c)
    \/ \E c \in Callers : BuyPass(c)
    \/ \E c \in Callers : BuyClaim(c)
    \/ \E c \in Callers : BuyClick(c)
    \/ \E c \in Callers : BuyNotFound(c)
    \/ \E c \in Callers : BuyLoaded(c)
    \/ \E c \in Callers : BuyFill(c)
    \/ \E c \in Callers : BuyFillError(c)
    \/ \E c \in Callers : BuyClose(c)
    \/ \E c \in Callers : BuyRelease(c)
    \/ \E c \in Callers : BuyUnflag(c)

\* no call of buy() yet; the globals the module does not assign are
\* undefined, or have been defined
BuyInit ==
    /\ OptionIdle
    /\ watchlist = << >>
    /\ searchCall = NoCall
    /\ NoGatherer
    /\ purchaseInProgress \in { "undefined", "False" }
    /\ driver \in { "undefined", "defined" }
    /\ ticketsOpen = InitialTickets
    /\ pcBuy = [c \in Callers |-> "idle"]
    /\ myTicket = [c \in Callers |-> << >>]
    /\ buyResult = [c \in Callers |-> "none"]
    /\ buys = [c \in Callers |-> 0]

BuySpec == BuyInit /\ [][BuyNext]_vars

\* every operation on the object: its construction, its calls, its Greeks
\* and the steps of its update process
ObjectNext == Next \/ Greek

\* one well-formed option quoted at 40.0 with the underlying at 0.7200, and
\* one with an unknown currency
ObjectInit ==
    /\ Init
    /\ name \in { AudUsd7600, XauUsd11000 }
    /\ buyPrice = 400000
    /\ underlying = 7200

ObjectSpec == ObjectInit /\ [][ObjectNext]_vars

\* the same calls, on objects constructed from any identifier and rate
IdentifierInit ==
    /\ Start(IdentifierNames, IdentifierUnderlyings, { NoOption })
    /\ NoSession

IdentifierSpec == IdentifierInit /\ [][CalcNext]_vars

\* the interpreter keeps executing a call that has been entered
FairCalcSpec ==
    /\ Init /\ [][CalcNext]_vars
    /\ WF_vars(CalcMid) /\ WF_vars(CalcRaise)
    /\ WF_vars(CalcTest) /\ WF_vars(CalcReturn)

-----------------------------------------------------------------------------
(***************************************************************************)
(* The forward price formula on the object's current terms and snapshot.   *)
(***************************************************************************)
\* whether lines 75-77 evaluate at volatility v without an exception
CanPrice(v) == D1Error(underlying, strike, v, expiry) = "none"

\* exp(-r_domestic*T) * Phi(d1(v)) * buyPrice * conversionFactor
PriceAt(v) ==
    Value(D1(underlying, strike, r_domestic, r_foreign, v, expiry),
          r_domestic, expiry, buyPrice, conversionFactor)

\* the call that has just returned left the loop with neither escape
\* condition true, that is by |buyPrice - value| <= precision
Converged == high > LowEscape /\ low < HighEscape

\* the terms have been parsed and the object has not been lost
Parsed == pc \in {"mid", "test", "idle"}

\* volatilities to compare prices at: 0.05, 1.0, 150.005, 300.0
VolSamples == { Scale \div 20, Scale, 150 * Scale + Scale \div 200, 300 * Scale }

\* candidates for the volatility v* a price is consistent with:
\* 0.5, 4.3765, 100.0
TrueVols == { Scale \div 2, 43765, 100 * Scale }

-----------------------------------------------------------------------------
\* C1: every call of calculateVolatility that has been entered ends: from
\* the top of the loop the caller gets back to having no call in progress
\* (or to a failed construction).
C1_CalcTerminates == (pc = "mid") ~> (pc \in {"idle", "failed"})

\* C2: a call that returns without meeting the precision target returns a
\* volatility <= 0.011 or >= 299.9.
C2_NearBoundaryOriginal ==
    (last = "calcReturn" /\ Abs(buyPrice - value) > precision)
        => (volatility <= 110 \/ volatility >= HighEscape)

\* C2 (amended): a call that returns without meeting the precision target
\* returns a volatility <= 0.1 or >= 299.9.
C2_NearBoundary ==
    (last = "calcReturn" /\ Abs(buyPrice - value) > precision)
        => (volatility <= LowEscape \/ volatility >= HighEscape)

\* a call has returned through "high <= 0.1" without meeting the target
C2_Witness ==
    /\ last = "calcReturn"
    /\ Abs(buyPrice - value) > precision
    /\ high <= LowEscape
    /\ volatility > 110

\* C3: after every call that returns, the forward price at the returned
\* volatility is within the precision of the buy price.
C3_RoundTripOriginal ==
    last = "calcReturn" => Abs(buyPrice - PriceAt(volatility)) <= precision

\* C3 (amended): after every call that returns with high > 0.1 and
\* low < 299.9, the forward price at the returned volatility is within the
\* precision of the buy price.
C3_RoundTrip ==
    (last = "calcReturn" /\ Converged)
        => Abs(buyPrice - PriceAt(volatility)) <= precision

\* a call has returned on the precision test after bisecting
C3_Witness ==
    /\ last = "calcReturn"
    /\ Converged
    /\ low > InitialLow
    /\ high < InitialHigh

\* C4: after every completed call d2 = d1 - volatility*sqrt(expiry), with d1
\* the d1 of the returned volatility.
C4_D2Relation ==
    last = "calcReturn"
        => /\ d2 = d1 - Mul(volatility, Sqrt(expiry))
           /\ d1 = D1(underlying, strike, r_domestic, r_foreign, volatility,
                      expiry)

\* a call has returned with d2 different from d1
C4_Witness == last = "calcReturn" /\ volatility > 0 /\ d2 # d1 /\ calls > 0

\* C5: in every iteration 0.01 <= low < high <= 300.0 and
\* low < volatility < high, and the returned volatility is strictly inside
\* (0.01, 300.0).
C5_Bracket ==
    /\ pc = "test"
          => /\ InitialLow <= low /\ low < high /\ high <= InitialHigh
             /\ low < volatility /\ volatility < high
    /\ last = "calcReturn"
          => (InitialLow < volatility /\ volatility < InitialHigh)

\* C6: when the buy price equals the forward price at some v* in
\* (0.01, 300), the returned volatility is within the precision of v*.
C6_ConvergesToTrueVolOriginal ==
    \A v \in TrueVols :
        (last = "calcReturn" /\ PriceAt(v) = buyPrice)
            => Abs(volatility - v) <= precision

\* C6 (amended): when the buy price equals the forward price at some v* in
\* (0.01, 300) and the call returns with high > 0.1 and low < 299.9, the
\* forward price at the returned volatility is within the precision of the
\* forward price at v*.
C6_ConvergesToTruePrice ==
    \A v \in TrueVols :
        (last = "calcReturn" /\ Converged /\ PriceAt(v) = buyPrice)
            => Abs(PriceAt(volatility) - PriceAt(v)) <= precision

\* a call has returned on the precision test for a price that is the
\* forward price at v* = 4.3765, with a volatility far from v*
C6_Witness ==
    /\ last = "calcReturn"
    /\ Converged
    /\ PriceAt(43765) = buyPrice
    /\ Abs(volatility - 43765) > precision

\* C7: with the terms and the snapshot fixed, the forward price strictly
\* increases with the volatility.
C7_PriceMonotone ==
    (Parsed /\ \A v \in VolSamples : CanPrice(v))
        => \A v1, v2 \in VolSamples : v1 < v2 => PriceAt(v1) < PriceAt(v2)

\* C8: in every state of a constructed option
\* conversionFactor = 1 / underlying.
C8_ConversionFactor ==
    (Parsed /\ underlying # 0) => conversionFactor = Div(Scale, underlying)

\* C9: at the end of every round of updateFields in push mode, sellPrice,
\* buyPrice, expiry and underlying come from one and the same tuple.
C9_AtomicSnapshot ==
    (doExpiry /\ pcU = "sell" /\ origin.underlying > 0)
        => /\ origin.sell = origin.underlying
           /\ origin.buy = origin.underlying
           /\ origin.expiry = origin.underlying

\* C10: every step of updateFields leaves volatility, d1 and d2 unchanged,
\* and they change in steps of calculateVolatility only.
C10_ModelStateFrame ==
    [][ /\ UpdateFields => UNCHANGED modelState
        /\ modelState' # modelState => (CalcMid \/ CalcRaise \/ CalcReturn) ]_vars

\* updateFields has completed a round on a calibrated option
C10_Witness ==
    /\ last = "update"
    /\ outcome = "returned"
    /\ volatility > 0
    /\ origin.underlying > 0

-----------------------------------------------------------------------------
\* the tokens of an identifier, its second-to-last token and the parts of
\* its first token
Tokens(nm) == Split(nm, " ")

StrikeToken(nm) == Tokens(nm)[Len(Tokens(nm)) - 1]

PairParts(nm) == Split(Tokens(nm)[1], "/")

\* lines 32-36 have run, one way or the other
ParseDone == pc \notin {"start", "parse"}

\* C11: once the constructor has set strike, countries, r_domestic and
\* r_foreign, no step of updateFields, calculateVolatility or a Greek changes
\* them, and no step at all changes the rate table.
C11_TermsImmutable ==
    [][ /\ UNCHANGED rateTable
        /\ Parsed => UNCHANGED << strike, countries, r_domestic, r_foreign >>
      ]_vars

\* a Greek has been called after an update round and a second calibration
C11_Witness ==
    /\ last = "greek"
    /\ calls > 0
    /\ origin.underlying > 0
    /\ strike = 7600

\* C12: when the identifier is malformed or names an unknown currency, the
\* construction fails with no update process started.
C12_ParseNoEffect ==
    (pc = "failed" /\ ctorError.type \in {"IndexError", "ValueError", "KeyError"})
        => updateProcess = "none"

\* C13: the strike of a constructed option is the number its second-to-last
\* token writes once a trailing '>' is removed, and the codes are the two
\* parts of the first token.
C13_StrikeTrailingOriginal ==
    Parsed => /\ IsFloat(StripTrailing(StrikeToken(name)))
              /\ strike = Float(StripTrailing(StrikeToken(name)))
              /\ countries = PairParts(name)
              /\ Len(countries) = 2

\* C13 (amended): the strike of a constructed option is the number its
\* second-to-last token writes once every '>' is removed, its rates are those
\* of the first two parts of the first token, and a ValueError is raised only
\* for a token that writes no number then.
C13_StrikeParsed ==
    /\ Parsed => /\ strike = Float(Remove(StrikeToken(name), ">"))
                 /\ countries = PairParts(name)
                 /\ r_domestic = rateTable[PairParts(name)[1]]
                 /\ r_foreign = rateTable[PairParts(name)[2]]
    /\ (Parsed /\ name \in {EurUsd11000, EurUsdTrailing, EurUsdJpy11000})
          => strike = 11000
    /\ (Parsed /\ name = AudUsdNegative) => strike = -7600
    /\ ctorError.type = "ValueError"
          => ~IsFloat(Remove(StrikeToken(name), ">"))

\* an option with the '>' in front of its strike has been constructed
C13_Witness ==
    /\ pc = "idle"
    /\ name = EurUsd11000
    /\ strike = 11000
    /\ countries = << << "E", "U", "R" >>, << "U", "S", "D" >> >>

\* C14: no option is constructed from an identifier whose first token does
\* not split into exactly two parts or whose strike token is no number.
C14_MalformedRejected ==
    Parsed => /\ Len(PairParts(name)) = 2
              /\ IsFloat(Remove(StrikeToken(name), ">"))

C16_ExpiredNoEffect ==
    [][ (pc = "mid" /\ ~inCtor /\ expiry <= 0) => UNCHANGED modelState ]_vars

\* C17: no calibration returns for an underlying or a strike at or below
\* zero.
C17_InvalidMarketRejected ==
    last = "calcReturn" => (underlying > 0 /\ strike > 0)

\* C18: a call of a Greek (the steps that set last to "greek") leaves every
\* attribute of the option unchanged.
C18_GreeksPure ==
    [][ last' = "greek" => UNCHANGED << terms, snapshot, histories,
                                        modelState, products >> ]_vars

\* a Greek with short = True has returned a number other than zero
C18_Witness ==
    /\ last = "greek"
    /\ greek.short
    /\ greek.raised = "none"
    /\ greek.value # 0

\* the model state and the cached products of an object
Calibration(o) ==
    << o.volatility, o.d1, o.d2, o.d1Squared, o.d1d2, o.d2Squared >>

\* the call that the first object completed last, run alone
SelfAlone == Run(Entering(Self, precision))

\* the constructor's call on the second object, run alone
OtherAlone == Run(Entering(other, CtorPrecision))

\* C19: with the steps of the calls and the Greeks of two objects
\* interleaved, each object's calibration and each Greek's result are those
\* of the object's own operations run alone.
C19_Independent ==
    /\ (pc = "idle" /\ last # "calcRaise" /\ outcome = "returned")
          => Calibration(Self) = Calibration(SelfAlone)
    /\ last = "greek"
          => greek = GreekCall(SelfAlone, greek.call, greek.short)
    /\ other.pc = "idle"
          => /\ Calibration(other) = Calibration(OtherAlone)
             /\ other.greek # NoGreek
                   => other.greek = GreekCall(OtherAlone, other.greek.call,
                                              other.greek.short)
    /\ other.pc = "raised"
          => other.volatility = OtherAlone.volatility

\* both objects have been calibrated with their steps interleaved, and a
\* Greek has been called on each
C19_Witness ==
    /\ last = "greek"
    /\ greek.value # 0
    /\ other.pc = "idle"
    /\ other.greek # NoGreek
    /\ other.greek.value # 0
    /\ other.volatility # volatility

\* the Greeks of the class of NadexScrape0.0.7.py that read the bare name
\* twoPi, which is an attribute of the class and no global of the module
BareTwoPi == { "theta", "vega", "gamma", "vanna", "speed", "zomma", "ultima" }

\* the exception a Greek of the class of NadexScrape0.0.7.py raises on the
\* object o, "none" when it returns: the name twoPi is looked up before any
\* division is made
ScrapeGreekError(o, g) ==
    CASE g \in BareTwoPi -> "NameError"
      [] g \in {"delta", "rho"} -> "none"
      [] g = "leverage" ->
            IF o.strike = 0 THEN "ZeroDivisionError" ELSE "none"
      [] g = "vomma" ->
            IF o.expiry < 0 THEN "ValueError"
            ELSE IF o.volatility = 0 THEN "ZeroDivisionError" ELSE "none"

\* the number a Greek of the class of NadexScrape0.0.7.py returns, for
\* ScrapeGreekError = "none": the products are computed from d1 and d2
ScrapeGreekValue(o, g, short) ==
    CASE g = "delta" -> delta(o, short)
      [] g = "leverage" -> leverage(o, short)
      [] g = "rho" -> rho(o, short)
      [] g = "vomma" -> Vomma(o, Mul(o.d1, o.d1), Mul(o.d1, o.d2))

\* what a call of a Greek of the class of NadexScrape0.0.7.py gives
ScrapeGreekCall(o, g, short) ==
    [call |-> g, short |-> short, raised |-> ScrapeGreekError(o, g),
     value |-> IF ScrapeGreekError(o, g) = "none"
               THEN ScrapeGreekValue(o, g, short)
               ELSE 0]

\* calculateVolatility of the class of NadexScrape0.0.7.py on the object o:
\* its loop and its exit test are those of CurrencyOption.py
ScrapeCalculateVolatility(o, prec) == Run(Entering(o, prec))

\* the call that the object completed last, made on an object of the class
\* of NadexScrape0.0.7.py
ScrapeSelf == ScrapeCalculateVolatility(Self, precision)

\* C20: the class of CurrencyOption.py and the class of NadexScrape0.0.7.py
\* give, on the same inputs, the same volatility, d1 and d2, and the same
\* outcome for every Greek.
C20_ClassesEquivalent ==
    /\ (pc = "idle" /\ last # "calcRaise" /\ outcome = "returned")
          => << volatility, d1, d2 >>
                = << ScrapeSelf.volatility, ScrapeSelf.d1, ScrapeSelf.d2 >>
    /\ last = "greek"
          => greek = ScrapeGreekCall(Self, greek.call, greek.short)

\* C21: an iteration that does not leave the loop has its volatility at the
\* midpoint of the bounds and changes exactly one bound: low becomes the
\* volatility when the value is below the buy price, high when it is above,
\* the other bound is kept; low does not decrease, high does not increase,
\* and the width of the bracket is halved (to the rounding of the midpoint).
C21_BisectionStep ==
    [][ (pc = "test" /\ pc' = "mid")
           => /\ volatility = Midpoint(low, high)
              /\ value < buyPrice => (low' = volatility /\ high' = high)
              /\ value > buyPrice => (high' = volatility /\ low' = low)
              /\ (low' # low) # (high' # high)
              /\ low' >= low /\ high' <= high
              /\ high' - low' < high - low
              /\ 2 * (high' - low') <= (high - low) + 1 ]_vars

\* the rows of the page whose two price cells are numeric
Priced(w) == SelectSeq(w, LAMBDA row : IsFloat(row.sell) /\ IsFloat(row.buy))

\* C22: getPrices(True) returns a list of even length that holds floats
\* only: the sell and the buy price of every row whose two cells are
\* numeric, in the order of the page.
C22_CleanPrices ==
    (searchCall.op = "getPrices" /\ searchCall.clean)
       => /\ Len(searchCall.value) % 2 = 0
          /\ \A i \in 1..Len(searchCall.value) : searchCall.value[i].float
          /\ searchCall.value
                = [i \in 1..(2 * Len(Priced(watchlist))) |->
                      ToFloat(PriceTexts(Priced(watchlist))[i])]

\* C23: getOptionNames(True) returns the names of the rows whose two price
\* cells are numeric, in the order of the page, whatever the number of
\* rows without a price.
C23_CleanNames ==
    (searchCall.op = "getOptionNames" /\ searchCall.clean)
       => /\ searchCall.raised = "none"
          /\ searchCall.value = NameTexts(Priced(watchlist))

\* C28: on a page that has a priced row, scanner makes one iteration for
\* each name and raises nothing: iteration n reads the two prices of the
\* row that names[n] is the name of.
C28_ScannerPairs ==
    (searchCall.op = "scanner" /\ Priced(watchlist) # << >>)
       => /\ searchCall.raised = "none"
          /\ Len(searchCall.rows) = Len(watchlist)
          /\ \A n \in 1..Len(searchCall.rows) :
                /\ searchCall.rows[n].name = watchlist[n].name
                /\ searchCall.rows[n].sell = ToFloat(watchlist[n].sell)
                /\ searchCall.rows[n].buy = ToFloat(watchlist[n].buy)

\* C24: a priceHistory process that has stopped has sent False as its last
\* status.
C24_HistoryReports ==
    pcHistory \in {"exited", "raised"} => status = "False"

\* C25: at most one priceHistory process is alive, and option 6 does not
\* wait for a status while one is in its loop: it prints and returns to the
\* prompt.
C25_MenuSix ==
    /\ running <= 1
    /\ ~(pcMenu = "recv" /\ pcHistory = "loop" /\ gathering = << >>)

\* a call that is between its assignment purchaseInProgress = True and its
\* assignment purchaseInProgress = False
InPurchase(c) ==
    pcBuy[c] \in {"click", "load", "fill", "close", "release", "unflag"}

\* C26: at most one call of buy() is between its assignment
\* purchaseInProgress = True and its assignment purchaseInProgress = False.
C26_OnePurchase ==
    \A c1, c2 \in Callers : (InPurchase(c1) /\ InPurchase(c2)) => c1 = c2

\* C27: when no call of buy() is in progress and one has returned,
\* purchaseInProgress is False and ticketsOpen has the value it had before
\* the calls.
C27_FlagReleased ==
    ( /\ \A c \in Callers : pcBuy[c] = "idle"
      /\ \E c \in Callers : buyResult[c] \in {"None", "Link_text not found."} )
       => (purchaseInProgress = "False" /\ ticketsOpen = InitialTickets)

\* a buy price that is not above the precision, an underlying of at least
\* 1.0, a domestic rate that is not negative and a time to expiry above 0
CheapOption ==
    /\ Parsed
    /\ 0 < buyPrice /\ buyPrice <= precision
    /\ underlying >= Scale
    /\ r_domestic >= 0
    /\ expiry > 0

\* C29, as stated: for such an option, whatever its strike, the first
\* iteration raises nothing, passes the exit test, and the call returns
\* 150.005.
C29_FirstIterationOriginal ==
    /\ (pc = "mid" /\ low = InitialLow /\ high = InitialHigh /\ CheapOption)
          => D1Error(underlying, strike, Midpoint(low, high), expiry) = "none"
    /\ (pc = "test" /\ CheapOption)
          => /\ ExitTest(value, buyPrice, precision, low, high)
             /\ volatility = Midpoint(InitialLow, InitialHigh)
    /\ (last = "calcReturn" /\ CheapOption)
          => volatility = Midpoint(InitialLow, InitialHigh)

\* C29: for such an option with a strike above 0, the first iteration
\* raises nothing, passes the exit test, and the call returns 150.005.
C29_FirstIteration ==
    /\ (pc = "mid" /\ low = InitialLow /\ high = InitialHigh /\ CheapOption
           /\ strike > 0)
          => D1Error(underlying, strike, Midpoint(low, high), expiry) = "none"
    /\ (pc = "test" /\ CheapOption /\ strike > 0)
          => /\ ExitTest(value, buyPrice, precision, low, high)
             /\ volatility = Midpoint(InitialLow, InitialHigh)
    /\ (last = "calcReturn" /\ CheapOption /\ strike > 0)
          => volatility = Midpoint(InitialLow, InitialHigh)

\* the constructor's call has returned 150.005 for an option bought at
\* 0.0120 with the underlying at 1.1050
C29_Witness ==
    /\ last = "calcReturn"
    /\ calls = 0
    /\ CheapOption
    /\ strike > 0
    /\ buyPrice = 120
    /\ volatility = Midpoint(InitialLow, InitialHigh)

\* C30: whenever the object is constructed and no call of
\* calculateVolatility is in progress, the cached products are the products
\* of d1 and d2.
C30_ProductsConsistent ==
    pc = "idle"
       => /\ d1Squared = Mul(d1, d1)
          /\ d1d2 = Mul(d1, d2)
          /\ d2Squared = Mul(d2, d2)

\* a call made after construction has raised, and the products cached by
\* the call before it are not 0
C30_Witness ==
    /\ pc = "idle"
    /\ last = "calcRaise"
    /\ d1Squared # 0
    /\ d1d2 # 0

=============================================================================
